---- MODULE Spec2Model ----
(***************************************************************************)
(* A model of src/src/core/useSpriteLoader.tsx: the sprite-sheet parser of *)
(* the useSpriteLoader hook (grid inference, manifest grouping, scale      *)
(* ratios), the hook state the parser publishes into and the loads of the *)
(* mounted hook; and of the frame callback of                              *)
(* src/src/core/MotionPathControls.tsx.                                    *)
(*                                                                         *)
(* JavaScript numbers that may be fractional or infinite are modelled as   *)
(* reduced fractions <<n, d>> of naturals: <<n, 1>> is the integer n,      *)
(* <<1, 0>> is Infinity and <<0, 0>> is NaN.  The result of Math.sqrt is   *)
(* modelled exactly, as the non-negative number whose square is a given    *)
(* fraction ([sqrtOf |-> q]).  Strings are sequences of one-character      *)
(* strings.                                                                *)
(***************************************************************************)
EXTENDS Integers, Sequences, FiniteSets, TLC

VARIABLES
    \* ---- the activation of getRowsAndColumns (lines 136-187) ----
    gpc,            \* "idle" | "call" | "outer" | "inner" | "returned" | "raised"
    gTexture,       \* argument texture
    gTotalFrames,   \* argument totalFrames
    ctxOk,          \* whether canvas.getContext('2d') yields a context
    cols,           \* const cols   (line 155)
    rows,           \* const rows   (line 156), a fraction (may be Infinity)
    frameWidth,     \* line 158
    frameHeight,    \* line 159
    row,            \* loop counter, line 163
    col,            \* loop counter, line 164
    emptyFrames,    \* line 161, sequence of [row, col]
    gResult,        \* the returned record, NoResult before the return
    gError,         \* the error thrown by the activation, or "none"
    \* ---- the hook useSpriteLoader (lines 76-92) ----
    animationNames, \* argument: null or an array of strings
    numberOfFrames, \* argument: a number; 0 stands for null, undefined and 0
    spriteDataRef,  \* spriteDataRef.current: null or a SpriteData object
    totalFrames,    \* totalFrames.current
    spriteData,     \* state spriteData
    spriteTexture,  \* state spriteTexture
    spriteObj,      \* state spriteObj
    \* ---- the activation of parseSpriteData (lines 284-379) ----
    pc,             \* "idle" | "grid" (inside getRowsAndColumns, for ever)
    pJsonGiven,     \* argument json of the last call, as it was supplied
    pJson,          \* argument json of the last call, as the call left it
    pTexture,       \* argument _spriteTexture of the last call
    pError,         \* the error the last call threw, or "none"
    \* ---- one application of parseFrames or calculateScaleRatio ----
    fCalled,        \* "none" | "parseFrames" | "calculateScaleRatio"
    fArg,           \* the argument of calculateScaleRatio
    fResult,        \* the value returned
    \* ---- the mounted hook: renders, effects and loads (lines 381-484) ----
    phase,          \* "unmounted" | "mounted" | "crashed" (an effect threw)
    input,          \* argument input of the current render: a URL, "" or "null"
    jsonUrl,        \* argument json of the current render: a URL, "" or "null"
    curNames,       \* argument animationNames of the current render
    curFrames,      \* argument numberOfFrames of the current render
    firstInput,     \* input of the first render, which the refs of lines
                    \* 118-130 hold in their closures
    loads,          \* the loads outstanding, in the order they were started
    started,        \* number of loads started so far
    called,         \* the last call of loadJsonAndTexture: its arguments, the
                    \* input of its render and its outcome, or NullValue
    thrown,         \* what the last load call threw at its caller, or "none"
    rejected,       \* the error that last rejected the promise of a load
    done,           \* the load that completed last, or NullValue
    onLoadCount,    \* number of calls of onLoad
    onLoadArgs,     \* the arguments of the last call of onLoad
    published       \* number of parses that published

gridVars == <<gpc, gTexture, gTotalFrames, ctxOk, cols, rows, frameWidth,
              frameHeight, row, col, emptyFrames, gResult, gError>>

hookVars == <<animationNames, numberOfFrames, spriteDataRef, totalFrames,
              spriteData, spriteTexture, spriteObj, pc, pJsonGiven, pJson,
              pTexture, pError>>

callVars == <<fCalled, fArg, fResult>>

loadVars == <<phase, input, jsonUrl, curNames, curFrames, firstInput, loads,
              started, called, thrown, rejected, done, onLoadCount, onLoadArgs,
              published>>

\* MotionPathControls (MotionPathControls.tsx): the arguments of the
\* component and the refs its frame callback reads and writes
VARIABLES
    autoStart,      \* argument autoStart
    loop,           \* argument loop
    easeFunction,   \* argument easeFunction: "none" or the name of an Ease
    animationSpeed, \* argument animationSpeed
    offsetRef,      \* offsetRef.current: undefined or the t of the last update(t)
    index,          \* index.current
    currentT,       \* currentT.current
    reached,        \* whether the last frame found index.current >= 1.0
    ticks           \* number of frames run

motionVars == <<autoStart, loop, easeFunction, animationSpeed, offsetRef,
                index, currentT, reached, ticks>>

vars == <<gridVars, hookVars, callVars, loadVars, motionVars>>

(***************************************************************************)
(* Bounds of the model.                                                    *)
(***************************************************************************)
MaxDim == 5            \* image width and height range over 1..MaxDim
MaxTotalFrames == 4    \* frame counts range over 1..MaxTotalFrames
MaxManifestLen == 1    \* number of frames of a generated manifest
MaxFrames == 3         \* number of frames parseFrames or calculateScaleRatio is given
MaxSide == 3           \* frame widths of calculateScaleRatio range over 0..MaxSide
MaxLoads == 2          \* number of loads started while the hook is mounted

(***************************************************************************)
(* JavaScript number arithmetic on non-negative values.                    *)
(***************************************************************************)
RECURSIVE GCD(_, _)
GCD(a, b) == IF b = 0 THEN a ELSE GCD(b, a % b)

Infinity == <<1, 0>>
NaN == <<0, 0>>

\* the number n/d (n, d naturals); x/0 is Infinity for x > 0 and 0/0 is NaN
Frac(n, d) ==
    IF d = 0 THEN (IF n = 0 THEN NaN ELSE Infinity)
    ELSE LET g == GCD(n, d) IN <<n \div g, d \div g>>

Num(n) == <<n, 1>>

IsFinite(a) == a[2] # 0

\* a * b ; Infinity * 0 is NaN
Mul(a, b) == Frac(a[1] * b[1], a[2] * b[2])

\* a / b ; x / Infinity is 0, x / 0 is Infinity, 0/0 and Inf/Inf are NaN
Div(a, b) == Frac(a[1] * b[2], a[2] * b[1])

\* a + b for finite a, b
Add(a, b) == Frac(a[1] * b[2] + b[1] * a[2], a[2] * b[2])

\* a < b ; every comparison with NaN is false
Lt(a, b) ==
    /\ a # NaN
    /\ b # NaN
    /\ a[1] * b[2] < b[1] * a[2]

\* Math.sqrt(a): the non-negative number whose square is a
MathSqrt(a) == [sqrtOf |-> a]

\* the least k >= from with x < k + 1/2, for a finite x >= 0 given by the
\* predicate below(k) == (x < k + 1/2)
RECURSIVE RoundUpFrom(_, _, _)
RoundUpFrom(k, n, d) ==
    \* n/d < (2k+1)/2
    IF 2 * n < (2 * k + 1) * d THEN k ELSE RoundUpFrom(k + 1, n, d)

\* Math.round(a) for a >= 0: the integer nearest a, a half rounding up;
\* Math.round(Infinity) is Infinity and Math.round(NaN) is NaN
MathRound(a) ==
    IF ~IsFinite(a) THEN a ELSE Num(RoundUpFrom(0, a[1], a[2]))

RECURSIVE RoundRootUpFrom(_, _, _)
RoundRootUpFrom(k, n, d) ==
    \* sqrt(n/d) < (2k+1)/2  <=>  4n < (2k+1)^2 d
    IF 4 * n < (2 * k + 1) * (2 * k + 1) * d THEN k
    ELSE RoundRootUpFrom(k + 1, n, d)

\* Math.round(r) for r = Math.sqrt(a), a >= 0
MathRoundSqrt(r) ==
    IF ~IsFinite(r.sqrtOf) THEN r.sqrtOf
    ELSE Num(RoundRootUpFrom(0, r.sqrtOf[1], r.sqrtOf[2]))

\* conversion of a finite number to a WebIDL long: truncation toward zero
ToLong(a) == a[1] \div a[2]

(***************************************************************************)
(* Textures and decoded images.  The alpha channel of an image is given by *)
(* the set of rectangles <<x0, y0, x1, y1>> (inclusive) that cover its     *)
(* pixels of non-zero alpha; every other pixel has alpha 0.                *)
(***************************************************************************)
NoImage == [kind |-> "null"]

Image(w, h, opaque) ==
    [kind |-> "image", width |-> w, height |-> h, opaque |-> opaque]

Texture(url, image) == [url |-> url, image |-> image, colorSpace |-> ""]

HasImage(texture) == texture.image.kind = "image"

\* the alpha byte of canvas pixel (x, y) after ctx.drawImage(image, 0, 0);
\* pixels outside the canvas read as transparent black
Alpha(image, x, y) ==
    IF \E r \in image.opaque :
          /\ r[1] <= x /\ x <= r[3]
          /\ r[2] <= y /\ y <= r[4]
          /\ x < image.width /\ y < image.height
    THEN 255 ELSE 0

\* ctx.getImageData(sx, sy, sw, sh).data, one alpha byte per pixel of the
\* rectangle in row-major order; the arguments are converted to long, and a
\* rectangle of zero width or height is an IndexSizeError
getImageData(image, sx, sy, sw, sh) ==
    IF ~(IsFinite(sx) /\ IsFinite(sy) /\ IsFinite(sw) /\ IsFinite(sh))
    THEN [error |-> "TypeError", data |-> <<>>]
    ELSE LET x0 == ToLong(sx)
             y0 == ToLong(sy)
             w  == ToLong(sw)
             h  == ToLong(sh)
         IN IF w = 0 \/ h = 0
            THEN [error |-> "IndexSizeError", data |-> <<>>]
            ELSE [error |-> "none",
                  data |-> [i \in 1..(w * h) |->
                              Alpha(image, x0 + ((i - 1) % w),
                                           y0 + ((i - 1) \div w))]]

\* a variant that reports a frame empty as soon as one pixel is transparent
checkIfFrameIsEmptyAnyPixel(frameData) ==
    \E i \in 1..Len(frameData) : frameData[i] = 0

\* checkIfFrameIsEmpty: frameData holds the alpha byte (index 3, 7, ...) of
\* each pixel
checkIfFrameIsEmpty(frameData) ==
    \A i \in 1..Len(frameData) : frameData[i] = 0

(***************************************************************************)
(* getRowsAndColumns, statement by statement.                              *)
(***************************************************************************)
NoResult == [kind |-> "none"]

\* the loop counter saturates (as row++ does at 2^53) one past the largest
\* finite row count
MaxSafeRow == MaxTotalFrames + 9

\* a variant with the aspect ratio inverted (height / width)
ComputeColsInverted(width, height, count) ==
    MathRoundSqrt(MathSqrt(Mul(Num(count), Div(Num(height), Num(width)))))

\* lines 155-159
ComputeCols(width, height, count) ==
    MathRoundSqrt(MathSqrt(Mul(Num(count), Div(Num(width), Num(height)))))

ComputeRows(count, c) == MathRound(Div(Num(count), c))

\* lines 138-161 and 182-184: entry, canvas set-up and grid size
GridEnter ==
    /\ gpc = "call"
    /\ IF HasImage(gTexture)
       THEN IF ~ctxOk
            THEN /\ gpc' = "raised"
                 /\ gError' = "Failed to get 2d context"
                 /\ UNCHANGED <<cols, rows, frameWidth, frameHeight, row, col,
                                emptyFrames, gResult>>
            ELSE LET width  == gTexture.image.width
                     height == gTexture.image.height
                     c == ComputeCols(width, height, gTotalFrames)
                     r == ComputeRows(gTotalFrames, c)
                 IN /\ cols' = c
                    /\ rows' = r
                    /\ frameWidth' = Div(Num(width), c)
                    /\ frameHeight' = Div(Num(height), r)
                    /\ emptyFrames' = <<>>
                    /\ row' = 0
                    /\ col' = 0
                    /\ gpc' = "outer"
                    /\ UNCHANGED <<gResult, gError>>
       ELSE /\ gResult' = [rows |-> Num(0), columns |-> Num(0),
                           frameWidth |-> Num(0), frameHeight |-> Num(0),
                           emptyFrames |-> <<>>]
            /\ gpc' = "returned"
            /\ UNCHANGED <<cols, rows, frameWidth, frameHeight, row, col,
                           emptyFrames, gError>>
    /\ UNCHANGED <<gTexture, gTotalFrames, ctxOk>>
    /\ UNCHANGED hookVars
    /\ UNCHANGED callVars
    /\ UNCHANGED loadVars
    /\ UNCHANGED motionVars

\* line 163 (loop test) and line 181 (return)
GridRowTest ==
    /\ gpc = "outer"
    /\ IF Lt(Num(row), rows)
       THEN /\ col' = 0
            /\ gpc' = "inner"
            /\ UNCHANGED gResult
       ELSE /\ gResult' = [rows |-> rows, columns |-> cols,
                           frameWidth |-> frameWidth,
                           frameHeight |-> frameHeight,
                           emptyFrames |-> emptyFrames]
            /\ gpc' = "returned"
            /\ UNCHANGED col
    /\ UNCHANGED <<gTexture, gTotalFrames, ctxOk, cols, rows, frameWidth,
                   frameHeight, row, emptyFrames, gError>>
    /\ UNCHANGED hookVars
    /\ UNCHANGED callVars
    /\ UNCHANGED loadVars
    /\ UNCHANGED motionVars

\* lines 164-178: one test of the inner loop and, when it passes, its body
GridCell ==
    /\ gpc = "inner"
    /\ IF Lt(Num(col), cols)
       THEN LET frameIndex == Add(Mul(Num(row), cols), Num(col))
            IN IF ~Lt(frameIndex, Num(gTotalFrames))
               THEN /\ emptyFrames' = Append(emptyFrames, [row |-> row, col |-> col])
                    /\ col' = col + 1
                    /\ UNCHANGED <<gpc, row, gError>>
               ELSE \E got \in {getImageData(gTexture.image,
                                               Mul(Num(col), frameWidth),
                                               Mul(Num(row), frameHeight),
                                               frameWidth, frameHeight)} :
                       IF got.error # "none"
                       THEN /\ gpc' = "raised"
                            /\ gError' = got.error
                            /\ UNCHANGED <<row, col, emptyFrames>>
                       ELSE /\ emptyFrames' =
                                 IF checkIfFrameIsEmpty(got.data)
                                 THEN Append(emptyFrames, [row |-> row, col |-> col])
                                 ELSE emptyFrames
                            /\ col' = col + 1
                            /\ UNCHANGED <<gpc, row, gError>>
       ELSE /\ row' = IF row < MaxSafeRow THEN row + 1 ELSE row
            /\ gpc' = "outer"
            /\ UNCHANGED <<col, emptyFrames, gError>>
    /\ UNCHANGED <<gTexture, gTotalFrames, ctxOk, cols, rows, frameWidth,
                   frameHeight, gResult>>
    /\ UNCHANGED hookVars
    /\ UNCHANGED callVars
    /\ UNCHANGED loadVars
    /\ UNCHANGED motionVars

(***************************************************************************)
(* getRowsAndColumns as one step, for its callers: the outcome of a call.  *)
(***************************************************************************)
\* lines 163-179: the two loops from (r, c) on, for a finite number of rows;
\* the result is [error, emptyFrames]
RECURSIVE ScanCells(_, _, _, _, _)
ScanCells(image, grid, r, c, empty) ==
    IF ~Lt(Num(r), grid.rows) THEN [error |-> "none", emptyFrames |-> empty]
    ELSE IF ~Lt(Num(c), grid.columns) THEN ScanCells(image, grid, r + 1, 0, empty)
    ELSE IF ~Lt(Add(Mul(Num(r), grid.columns), Num(c)), Num(grid.total))
         THEN ScanCells(image, grid, r, c + 1,
                        Append(empty, [row |-> r, col |-> c]))
    ELSE LET got == getImageData(image,
                                 Mul(Num(c), grid.frameWidth),
                                 Mul(Num(r), grid.frameHeight),
                                 grid.frameWidth, grid.frameHeight)
         IN IF got.error # "none"
            THEN [error |-> got.error, emptyFrames |-> empty]
            ELSE ScanCells(image, grid, r, c + 1,
                           IF checkIfFrameIsEmpty(got.data)
                           THEN Append(empty, [row |-> r, col |-> c])
                           ELSE empty)

\* the call getRowsAndColumns(texture, count) where getContext succeeds iff
\* ok: [status |-> "returned", result], [status |-> "raised", error] or,
\* when rows is Infinity and the loop of line 163 has no end,
\* [status |-> "loops"]
getRowsAndColumns(texture, count, ok) ==
    IF ~HasImage(texture)
    THEN [status |-> "returned",
          result |-> [rows |-> Num(0), columns |-> Num(0),
                      frameWidth |-> Num(0), frameHeight |-> Num(0),
                      emptyFrames |-> <<>>]]
    ELSE IF ~ok
    THEN [status |-> "raised", error |-> "Failed to get 2d context"]
    ELSE LET width  == texture.image.width
             height == texture.image.height
             c == ComputeCols(width, height, count)
             r == ComputeRows(count, c)
             grid == [rows |-> r, columns |-> c, total |-> count,
                      frameWidth |-> Div(Num(width), c),
                      frameHeight |-> Div(Num(height), r)]
         IN IF ~IsFinite(r)
            THEN [status |-> "loops"]
            ELSE LET scan == ScanCells(texture.image, grid, 0, 0, <<>>)
                 IN IF scan.error # "none"
                    THEN [status |-> "raised", error |-> scan.error]
                    ELSE [status |-> "returned",
                          result |-> [rows |-> r, columns |-> c,
                                      frameWidth |-> grid.frameWidth,
                                      frameHeight |-> grid.frameHeight,
                                      emptyFrames |-> scan.emptyFrames]]

(***************************************************************************)
(* JavaScript values of the parser.  Every object carries its kind:        *)
(*   "array"   items (a sequence) and, when set, the extra property frame  *)
(*   "object"  entries, the sequence of [key, value] in key order          *)
(*   "frame"   a frame record (its other fields are its properties)        *)
(*   "null", "undefined"                                                   *)
(* A SpriteData object is [frames |-> ..., meta |-> ...].                  *)
(***************************************************************************)
NullValue == [kind |-> "null"]
Undefined == [kind |-> "undefined"]

Arr(items) == [kind |-> "array", items |-> items]
Obj(entries) == [kind |-> "object", entries |-> entries]

IsArray(v) == v.kind = "array"

\* typeof v === 'object' (true of null as well)
TypeofObject(v) == v.kind \in {"array", "object", "frame", "null"}

Rect(x, y, w, h) == [x |-> x, y |-> y, w |-> w, h |-> h]
Size(w, h) == [w |-> w, h |-> h]

\* { ...o, [name]: value }
WithProp(o, name, value) ==
    [k \in (DOMAIN o) \cup {name} |-> IF k = name THEN value ELSE o[k]]

\* o[name] of an object: undefined when the property is not there
Prop(o, name) == IF name \in DOMAIN o THEN o[name] ELSE Undefined

(***************************************************************************)
(* Strings.                                                                *)
(***************************************************************************)
UpperCase == <<"A", "B", "C", "D", "E", "F", "G", "H", "I", "J", "K", "L", "M",
               "N", "O", "P", "Q", "R", "S", "T", "U", "V", "W", "X", "Y", "Z">>
LowerCase == <<"a", "b", "c", "d", "e", "f", "g", "h", "i", "j", "k", "l", "m",
               "n", "o", "p", "q", "r", "s", "t", "u", "v", "w", "x", "y", "z">>

\* the place of each upper-case letter in UpperCase
UpperIndex ==
    [c \in {UpperCase[j] : j \in 1..Len(UpperCase)} |->
        CHOOSE j \in 1..Len(UpperCase) : UpperCase[j] = c]

\* String.prototype.toLowerCase
toLowerCase(str) ==
    [i \in 1..Len(str) |->
        IF str[i] \in DOMAIN UpperIndex THEN LowerCase[UpperIndex[str[i]]]
        ELSE str[i]]

\* whether search occurs in str at position i (from 0)
OccursAt(str, search, i) ==
    /\ i + Len(search) <= Len(str)
    /\ \A k \in 1..Len(search) : str[i + k] = search[k]

\* String.prototype.indexOf: the scan from position i on
RECURSIVE IndexFrom(_, _, _)
IndexFrom(str, search, i) ==
    IF i + Len(search) > Len(str) THEN -1
    ELSE IF OccursAt(str, search, i) THEN i
    ELSE IndexFrom(str, search, i + 1)

indexOf(str, search) == IndexFrom(str, search, 0)

(***************************************************************************)
(* calculateScaleRatio (lines 427-465).                                    *)
(***************************************************************************)
NoFrame == [kind |-> "null"]

\* a === b on numbers
NumEq(a, b) == a # NaN /\ a = b

FrameArea(f) == Mul(f.frame.w, f.frame.h)

\* a variant of the search that keeps the smallest frame
RECURSIVE SmallestFrame(_, _, _)
SmallestFrame(frameArray, i, largestFrame) ==
    IF i > Len(frameArray) THEN largestFrame
    ELSE LET area == FrameArea(frameArray[i])
         IN SmallestFrame(frameArray, i + 1,
                IF largestFrame = NoFrame \/ Lt(area, largestFrame.area)
                THEN [kind |-> "largest", w |-> frameArray[i].frame.w,
                      h |-> frameArray[i].frame.h, area |-> area]
                ELSE largestFrame)

\* lines 431-439: the loop that finds the largest frame, from index i on
RECURSIVE LargestFrame(_, _, _)
LargestFrame(frameArray, i, largestFrame) ==
    IF i > Len(frameArray) THEN largestFrame
    ELSE LET area == FrameArea(frameArray[i])
         IN LargestFrame(frameArray, i + 1,
                IF largestFrame = NoFrame \/ Lt(largestFrame.area, area)
                THEN [kind |-> "largest", w |-> frameArray[i].frame.w,
                      h |-> frameArray[i].frame.h, area |-> area]
                ELSE largestFrame)

\* lines 429-452, on the items of an array; the result is a new array
processFrameArray(frameArray) ==
    LET largestFrame == LargestFrame(frameArray, 1, NoFrame)
    IN [i \in 1..Len(frameArray) |->
          LET area == FrameArea(frameArray[i])
              scaleRatio ==
                  IF largestFrame # NoFrame
                  THEN IF NumEq(area, largestFrame.area)
                       THEN MathSqrt(Num(1))
                       ELSE MathSqrt(Div(area, largestFrame.area))
                  ELSE MathSqrt(Num(1))
          IN WithProp(frameArray[i], "scaleRatio", scaleRatio)]

\* lines 454-464, for an array or an object whose values are arrays
calculateScaleRatio(frames) ==
    IF IsArray(frames)
    THEN Arr(processFrameArray(frames.items))
    ELSE Obj([i \in 1..Len(frames.entries) |->
                [key |-> frames.entries[i].key,
                 value |-> Arr(processFrameArray(frames.entries[i].value.items))]])

(***************************************************************************)
(* parseFrames (lines 190-282).  The frames of a manifest are frame        *)
(* records with the properties frame and sourceSize (and filename, in the  *)
(* array form).                                                            *)
(***************************************************************************)
\* sprites[key] = value on an object: a new key goes last, an old one keeps
\* its place
SetKey(entries, key, value) ==
    IF \E i \in 1..Len(entries) : entries[i].key = key
    THEN [i \in 1..Len(entries) |->
            IF entries[i].key = key THEN [key |-> key, value |-> value]
            ELSE entries[i]]
    ELSE Append(entries, [key |-> key, value |-> value])

\* lines 214-221 and 247-254: the record pushed into a bucket
BucketFrame(value) ==
    [kind |-> "frame",
     x |-> value.frame.x, y |-> value.frame.y,
     w |-> value.frame.w, h |-> value.frame.h,
     frame |-> value.frame,
     sourceSize |-> Size(value.sourceSize.w, value.sourceSize.h)]

\* a variant that compares the identifier and the name as written
ContainsNameCaseSensitive(identifier, name) ==
    indexOf(identifier, name) # -1

\* lines 212 and 246: identifier.toLowerCase().indexOf(name.toLowerCase()) !== -1
ContainsName(identifier, name) ==
    \E str \in {toLowerCase(identifier)} :
        \E search \in {toLowerCase(name)} : indexOf(str, search) # -1

\* lines 201-223: the frames of an array manifest pushed for one name
RECURSIVE ArrayBucket(_, _, _)
ArrayBucket(items, i, name) ==
    IF i > Len(items) THEN <<>>
    ELSE LET value == items[i]
             rest == ArrayBucket(items, i + 1, name)
         IN IF "filename" \in DOMAIN value /\ ContainsName(value.filename, name)
            THEN <<BucketFrame(value)>> \o rest
            ELSE rest

\* lines 236-256: the frames of a hash manifest pushed for one name
RECURSIVE HashBucket(_, _, _)
HashBucket(entries, i, name) ==
    IF i > Len(entries) THEN <<>>
    ELSE LET rest == HashBucket(entries, i + 1, name)
         IN IF ContainsName(entries[i].key, name)
            THEN <<BucketFrame(entries[i].value)>> \o rest
            ELSE rest

\* lines 197-224 and 232-257: the loop over the names, from index i on
RECURSIVE GroupFrames(_, _, _, _)
GroupFrames(frames, delimiters, i, sprites) ==
    IF i > Len(delimiters) THEN sprites
    ELSE LET bucket ==
                 IF IsArray(frames)
                 THEN ArrayBucket(frames.items, 1, delimiters[i])
                 ELSE IF frames.kind = "object"
                      THEN HashBucket(frames.entries, 1, delimiters[i])
                      ELSE <<>>
         IN GroupFrames(frames, delimiters, i + 1,
                        SetKey(sprites, delimiters[i], Arr(bucket)))

\* lines 226-228 and 259-261: sprites[name].frame = calculateScaleRatio(...)
SetBucketScale(sprites) ==
    [i \in 1..Len(sprites) |->
        [key |-> sprites[i].key,
         value |-> WithProp(sprites[i].value, "frame",
                            calculateScaleRatio(sprites[i].value))]]

\* Array.prototype.flat on the values of an object
RECURSIVE FlatValues(_, _)
FlatValues(entries, i) ==
    IF i > Len(entries) THEN <<>>
    ELSE (IF IsArray(entries[i].value) THEN entries[i].value.items
          ELSE <<entries[i].value>>) \o FlatValues(entries, i + 1)

\* lines 266-279: the frames of the manifest as one array
FlattenFrames(frames) ==
    IF frames.kind \in {"null", "undefined"} THEN <<>>
    ELSE IF IsArray(frames) THEN frames.items
    ELSE FlatValues(frames.entries, 1)

\* parseFrames, for data = spriteDataRef.current and
\* delimiters = animationNames (null, or an array of strings)
parseFrames(data, delimiters) ==
    IF data = NullValue THEN Undefined
    ELSE IF delimiters # NullValue /\ TypeofObject(data.frames)
         THEN Obj(SetBucketScale(
                    GroupFrames(data.frames, delimiters.items, 1, <<>>)))
         ELSE calculateScaleRatio(Arr(FlattenFrames(data.frames)))

\* getFirstItem (lines 50-60): [error, value]
getFirstItem(param) ==
    IF IsArray(param)
    THEN [error |-> "none",
          value |-> IF Len(param.items) > 0 THEN param.items[1] ELSE Undefined]
    ELSE IF param.kind = "object"
    THEN IF Len(param.entries) = 0
         THEN [error |-> "TypeError", value |-> Undefined]
         ELSE LET first == param.entries[1].value
              IN [error |-> "none",
                  value |-> IF IsArray(first) /\ Len(first.items) > 0
                            THEN first.items[1] ELSE Undefined]
    ELSE [error |-> "none",
          value |-> [kind |-> "frame", w |-> Num(0), h |-> Num(0),
                     sourceSize |-> Size(Num(0), Num(0))]]

(***************************************************************************)
(* Bounded sets of decoded images.                                         *)
(***************************************************************************)
AlphaPatterns(w, h) ==
    {{}, {<<0, 0, w - 1, h - 1>>}}
        \cup {{<<x, y, x, y>>} : x \in 0..(w - 1), y \in 0..(h - 1)}

ImagesUpTo(n) ==
    UNION {{Image(w, h, op) : op \in AlphaPatterns(w, h)} :
              w \in 1..n, h \in 1..n}

SmallImages == ImagesUpTo(MaxDim)

\* the sheet of the documentation's examples: 512 x 256, every pixel opaque
SheetImage == Image(512, 256, {<<0, 0, 511, 255>>})

GridInputs ==
    ((SmallImages \cup {NoImage}) \X (1..MaxTotalFrames))
        \cup ({SheetImage} \X {7, 8})

(***************************************************************************)
(* The hook state and parseSpriteData (lines 284-379).                     *)
(***************************************************************************)
\* new THREE.Texture(): the placeholder of line 89, without an image
PlaceholderTexture == Texture(<<>>, NoImage)

\* the state after construction (lines 85-91), no call running
HookIdle ==
    /\ spriteDataRef = NullValue
    /\ totalFrames = 0
    /\ spriteData = NullValue
    /\ spriteTexture = PlaceholderTexture
    /\ spriteObj = NullValue
    /\ pc = "idle"
    /\ pJsonGiven = NullValue
    /\ pJson = NullValue
    /\ pTexture = PlaceholderTexture
    /\ pError = "none"

\* calculateAspectRatio(width, height, aspectFactor) (lines 93-115): the
\* viewport arithmetic is not modelled, the vector is named by its arguments
AspectFor(width, height) == [kind |-> "fitted", width |-> width, height |-> height]

\* new THREE.Vector3(1, 1, 1), line 286
UnitAspect == [kind |-> "unit"]

\* lines 364-369: the texture with its colour space set
WithColorSpace(texture) == [texture EXCEPT !.colorSpace = "srgb"]

\* lines 362-376: the three state updates
Publish(texture, data, aspect) ==
    /\ spriteData' = data
    /\ spriteTexture' = WithColorSpace(texture)
    /\ spriteObj' = [spriteTexture |-> WithColorSpace(texture),
                     spriteData |-> data,
                     aspect |-> aspect]

\* lines 353-376: a manifest and a texture.  json is the object the loader
\* parsed; line 355 replaces its frames in place.
ParseSpriteDataJson(json, texture) ==
    /\ pc = "idle"
    /\ \E parsed \in {parseFrames(json, animationNames)} :
       LET data == [json EXCEPT !.frames = parsed]
           first == getFirstItem(parsed)
       IN /\ spriteDataRef' = data
          /\ pJsonGiven' = json
          /\ pJson' = data
          /\ totalFrames' = IF IsArray(parsed) THEN Len(parsed.items)
                            ELSE Len(parsed.entries)
          /\ IF first.error # "none" \/ first.value = Undefined
             THEN \* line 358 reads .sourceSize of undefined
                  /\ pError' = "TypeError"
                  /\ UNCHANGED <<spriteData, spriteTexture, spriteObj>>
             ELSE /\ pError' = "none"
                  /\ Publish(texture, data,
                             AspectFor(first.value.sourceSize.w,
                                       first.value.sourceSize.h))
    /\ pTexture' = texture
    /\ UNCHANGED <<pc, animationNames, numberOfFrames>>
    /\ UNCHANGED gridVars
    /\ UNCHANGED callVars

\* a variant that emits a frame for the excluded cells too
RECURSIVE GridFramesOfAllCells(_, _, _)
GridFramesOfAllCells(grid, r, c) ==
    IF ~Lt(Num(r), grid.rows) THEN <<>>
    ELSE IF ~Lt(Num(c), grid.columns) THEN GridFramesOfAllCells(grid, r + 1, 0)
    ELSE <<[kind |-> "frame",
            frame |-> Rect(Mul(Num(c), grid.frameWidth),
                           Mul(Num(r), grid.frameHeight),
                           grid.frameWidth, grid.frameHeight),
            rotated |-> FALSE,
            trimmed |-> FALSE,
            spriteSourceSize |-> Rect(Num(0), Num(0),
                                      grid.frameWidth, grid.frameHeight),
            sourceSize |-> Size(grid.frameWidth, grid.frameHeight)]>>
         \o GridFramesOfAllCells(grid, r, c + 1)

\* lines 311-342: the frames of the cells from (r, c) on, row by row
RECURSIVE GridFrames(_, _, _)
GridFrames(grid, r, c) ==
    IF ~Lt(Num(r), grid.rows) THEN <<>>
    ELSE IF ~Lt(Num(c), grid.columns) THEN GridFrames(grid, r + 1, 0)
    ELSE LET isExcluded ==
                 \E i \in 1..Len(grid.emptyFrames) :
                     /\ grid.emptyFrames[i].row = r
                     /\ grid.emptyFrames[i].col = c
         IN (IF isExcluded THEN <<>>
             ELSE <<[kind |-> "frame",
                     frame |-> Rect(Mul(Num(c), grid.frameWidth),
                                    Mul(Num(r), grid.frameHeight),
                                    grid.frameWidth, grid.frameHeight),
                     rotated |-> FALSE,
                     trimmed |-> FALSE,
                     spriteSourceSize |-> Rect(Num(0), Num(0),
                                               grid.frameWidth, grid.frameHeight),
                     sourceSize |-> Size(grid.frameWidth, grid.frameHeight)]>>)
            \o GridFrames(grid, r, c + 1)

\* lines 298-309: the SpriteData object built from the grid
NonJsonFrames(texture, grid) ==
    [frames |-> Arr(GridFrames(grid, 0, 0)),
     meta |-> [version |-> "1.0",
               size |-> Size(Num(texture.image.width), Num(texture.image.height)),
               rows |-> grid.rows,
               columns |-> grid.columns,
               frameWidth |-> grid.frameWidth,
               frameHeight |-> grid.frameHeight,
               scale |-> "1"]]

\* lines 288-376: no manifest and a frame count.  The call of
\* getRowsAndColumns returns, throws, or never comes back.
ParseSpriteDataImage(texture) ==
    /\ pc = "idle"
    /\ numberOfFrames # 0
    /\ pJsonGiven' = NullValue
    /\ pJson' = NullValue
    /\ pTexture' = texture
    /\ IF ~HasImage(texture)
       THEN \* line 291 reads .width of a null image
            /\ pError' = "TypeError"
            /\ UNCHANGED <<pc, totalFrames, spriteDataRef, spriteData,
                           spriteTexture, spriteObj>>
       ELSE /\ totalFrames' = numberOfFrames
            /\ \E got \in {getRowsAndColumns(texture, numberOfFrames, ctxOk)} :
                 IF got.status = "loops"
                 THEN /\ pc' = "grid"
                      /\ pError' = "none"
                      /\ UNCHANGED <<spriteDataRef, spriteData, spriteTexture,
                                     spriteObj>>
                 ELSE IF got.status = "raised"
                 THEN /\ pError' = got.error
                      /\ UNCHANGED <<pc, spriteDataRef, spriteData,
                                     spriteTexture, spriteObj>>
                 ELSE LET nonJsonFrames == NonJsonFrames(texture, got.result)
                          data == [nonJsonFrames EXCEPT
                                     !.frames = calculateScaleRatio(nonJsonFrames.frames)]
                      IN /\ spriteDataRef' = data
                         /\ pError' = "none"
                         /\ Publish(texture, data,
                                    AspectFor(got.result.frameWidth,
                                              got.result.frameHeight))
                         /\ UNCHANGED pc
    /\ UNCHANGED <<animationNames, numberOfFrames>>
    /\ UNCHANGED gridVars
    /\ UNCHANGED callVars

\* lines 288 and 349-376: no manifest and no frame count
ParseSpriteDataNoFrames(texture) ==
    /\ pc = "idle"
    /\ numberOfFrames = 0
    /\ LET data == IF spriteDataRef # NullValue
                      /\ spriteDataRef.frames.kind \notin {"null", "undefined"}
                   THEN [spriteDataRef EXCEPT
                            !.frames = calculateScaleRatio(spriteDataRef.frames)]
                   ELSE spriteDataRef
       IN /\ spriteDataRef' = data
          /\ Publish(texture, data, UnitAspect)
    /\ pJsonGiven' = NullValue
    /\ pJson' = NullValue
    /\ pTexture' = texture
    /\ pError' = "none"
    /\ UNCHANGED <<pc, animationNames, numberOfFrames, totalFrames>>
    /\ UNCHANGED gridVars
    /\ UNCHANGED callVars

(***************************************************************************)
(* SpecGrid: one call of getRowsAndColumns on a bounded texture and count. *)
(***************************************************************************)
\* MotionPathControls not mounted
MotionIdle ==
    /\ autoStart = FALSE
    /\ loop = FALSE
    /\ easeFunction = "none"
    /\ animationSpeed = <<0, 1>>
    /\ offsetRef = [kind |-> "undefined"]
    /\ index = <<0, 1>>
    /\ currentT = <<0, 1>>
    /\ reached = FALSE
    /\ ticks = 0

\* every variable of the activation before any call
GridIdle ==
    /\ gpc = "idle"
    /\ gTexture = Texture(<<>>, NoImage)
    /\ gTotalFrames = 0
    /\ cols = Num(0)
    /\ rows = Num(0)
    /\ frameWidth = Num(0)
    /\ frameHeight = Num(0)
    /\ row = 0
    /\ col = 0
    /\ emptyFrames = <<>>
    /\ gResult = NoResult
    /\ gError = "none"

\* no function applied on its own
CallIdle ==
    /\ fCalled = "none"
    /\ fArg = NullValue
    /\ fResult = NullValue

\* the hook not mounted: no render yet, no load, no call of onLoad
LoadIdle ==
    /\ phase = "unmounted"
    /\ input = "null"
    /\ jsonUrl = "null"
    /\ curNames = NullValue
    /\ curFrames = 0
    /\ firstInput = "null"
    /\ loads = <<>>
    /\ started = 0
    /\ called = NullValue
    /\ thrown = "none"
    /\ rejected = "none"
    /\ done = NullValue
    /\ onLoadCount = 0
    /\ onLoadArgs = NullValue
    /\ published = 0

InitGrid ==
    /\ GridIdle
    /\ CallIdle
    /\ LoadIdle
    /\ MotionIdle
    /\ ctxOk \in BOOLEAN
    /\ animationNames = NullValue
    /\ numberOfFrames = 0
    /\ HookIdle

\* a caller invokes getRowsAndColumns(texture, totalFrames)
GridCall ==
    /\ gpc = "idle"
    /\ pc = "idle"
    /\ \E in \in GridInputs :
          /\ gTexture' = Texture(<<"s">>, in[1])
          /\ gTotalFrames' = in[2]
    /\ gpc' = "call"
    /\ UNCHANGED <<ctxOk, cols, rows, frameWidth, frameHeight, row, col,
                   emptyFrames, gResult, gError>>
    /\ UNCHANGED hookVars
    /\ UNCHANGED callVars
    /\ UNCHANGED loadVars
    /\ UNCHANGED motionVars

NextGrid == GridCall \/ GridEnter \/ GridRowTest \/ GridCell

SpecGrid == InitGrid /\ [][NextGrid]_vars

(***************************************************************************)
(* Spec: the hook with its arguments fixed at the first render (the parse  *)
(* callback is the one captured by parseSpriteRef, line 128), and          *)
(* parseSpriteData called by the completion of a load, any number of       *)
(* times, with a bounded manifest or texture.                              *)
(***************************************************************************)
SeqsUpTo(S, n) == UNION {[1..k -> S] : k \in 0..n}

sRun == <<"r", "u", "n">>
sRUN == <<"R", "U", "N">>
sJump == <<"j", "u", "m", "p">>
sFly == <<"f", "l", "y">>
sRun1 == <<"r", "u", "n", "_", "1">>
sRunning2 == <<"r", "u", "n", "n", "i", "n", "g", "_", "2">>
sJump1 == <<"j", "u", "m", "p", "_", "1">>
sRun3Upper == <<"R", "u", "n", "_", "3">>
sA == <<"a">>
sB == <<"b">>
sA1 == <<"a", "1">>
sA2 == <<"a", "2">>
sB1 == <<"b", "1">>
sB2 == <<"b", "2">>

\* a frame of a manifest: its rectangle w x h at (x, 0), untrimmed
ManifestFrame(x, w, h) ==
    [kind |-> "frame",
     frame |-> Rect(Num(x), Num(0), Num(w), Num(h)),
     sourceSize |-> Size(Num(w), Num(h))]

\* array form: each frame carries its filename
ArrayManifest(named) ==
    Arr([i \in 1..Len(named) |->
            WithProp(ManifestFrame(named[i][2], named[i][3], named[i][4]),
                     "filename", named[i][1])])

\* hash form: the frames under their keys
HashManifest(named) ==
    Obj([i \in 1..Len(named) |->
            [key |-> named[i][1],
             value |-> ManifestFrame(named[i][2], named[i][3], named[i][4])]])

\* the manifest of the documentation's grouping example
WalkFrames == <<<<sRun1, 0, 4, 4>>, <<sRunning2, 4, 4, 4>>, <<sJump1, 8, 4, 2>>>>

\* the manifest of the documentation's scale example: areas 2500 and
\* 10000 under a, 2500 and 40000 under b
AreaFrames == <<<<sA1, 0, 50, 50>>, <<sA2, 50, 100, 100>>,
                <<sB1, 150, 50, 50>>, <<sB2, 200, 200, 200>>>>

\* <<name, x, w, h>> of the generated manifests
NamedFramePool == {<<sRun1, 0, 2, 1>>, <<sJump1, 0, 1, 1>>}

DistinctNames(named) ==
    \A i, j \in 1..Len(named) : named[i][1] = named[j][1] => i = j

ParseManifests ==
    {ArrayManifest(WalkFrames), HashManifest(WalkFrames), HashManifest(AreaFrames)}
        \cup {ArrayManifest(named) : named \in SeqsUpTo(NamedFramePool, MaxManifestLen)}
        \cup {HashManifest(named) :
                 named \in {n \in SeqsUpTo(NamedFramePool, MaxManifestLen) :
                                DistinctNames(n)}}

\* the object response.json() yields for a manifest
JsonObject(frames) == [frames |-> frames, meta |-> [app |-> "manifest"]]

AnimationNameOptions ==
    {NullValue, Arr(<<>>), Arr(<<sRun>>), Arr(<<sRun, sJump>>),
     Arr(<<sFly, sRun>>), Arr(<<sA, sB>>)}

\* the texture a load of the sprite sheet yields
AtlasTexture == Texture(<<"a">>, Image(2, 2, {<<0, 0, 1, 1>>}))

\* <<width, height>> of the images parseSpriteData is given; 1 x 5 with one
\* frame is a sheet whose grid has no column
ParseDims == {<<1, 1>>, <<2, 2>>, <<3, 2>>, <<1, 5>>}

ParseImages ==
    UNION {{Image(d[1], d[2], op) :
               op \in {{}, {<<0, 0, 0, 0>>}, {<<d[1] - 1, d[2] - 1, d[1] - 1, d[2] - 1>>},
                       {<<0, 0, d[1] - 1, d[2] - 1>>}}} :
              d \in ParseDims}

ParseTextures == {Texture(<<"s">>, image) : image \in ParseImages \cup {NoImage}}

Init ==
    /\ GridIdle
    /\ CallIdle
    /\ LoadIdle
    /\ MotionIdle
    /\ ctxOk \in BOOLEAN
    /\ animationNames \in AnimationNameOptions
    /\ numberOfFrames \in 0..MaxTotalFrames
    /\ HookIdle

\* parseSpriteRef.current(json, texture), called when a load completes
\* (lines 383, 404 and 421), for each of the three paths of parseSpriteData
ParseJsonStep ==
    /\ \E frames \in ParseManifests :
          ParseSpriteDataJson(JsonObject(frames), AtlasTexture)
    /\ UNCHANGED loadVars
    /\ UNCHANGED motionVars

ParseImageStep ==
    /\ \E texture \in ParseTextures : ParseSpriteDataImage(texture)
    /\ UNCHANGED loadVars
    /\ UNCHANGED motionVars

ParseNoFramesStep ==
    /\ \E texture \in ParseTextures : ParseSpriteDataNoFrames(texture)
    /\ UNCHANGED loadVars
    /\ UNCHANGED motionVars

Next == ParseJsonStep \/ ParseImageStep \/ ParseNoFramesStep

Spec == Init /\ [][Next]_vars

(***************************************************************************)
(* SpecFrames: one application of parseFrames (lines 190-282) to           *)
(* spriteDataRef.current holding a bounded manifest, under a non-empty     *)
(* list of animation names.                                                *)
(***************************************************************************)
sRunJump == <<"r", "u", "n", "j", "u", "m", "p">>

FrameIds == {sRun1, sRunning2, sJump1, sRun3Upper, sRunJump}

\* the sequences of distinct identifiers
IdSeqs ==
    {ids \in SeqsUpTo(FrameIds, MaxFrames) :
        \A i, j \in 1..Len(ids) : ids[i] = ids[j] => i = j}

\* <<name, x, w, h>> of the frames with these identifiers: the k-th at x = k
NamedAt(ids) == [k \in 1..Len(ids) |-> <<ids[k], k, 1 + (k % 2), 1>>]

\* an array manifest whose first frame has no filename
UnnamedFirst ==
    Arr(<<ManifestFrame(0, 2, 2)>> \o ArrayManifest(<<<<sRun1, 1, 1, 1>>>>).items)

FrameManifests ==
    {ArrayManifest(WalkFrames), HashManifest(WalkFrames), UnnamedFirst}
        \cup {ArrayManifest(NamedAt(ids)) : ids \in IdSeqs}
        \cup {HashManifest(NamedAt(ids)) : ids \in IdSeqs}

FrameNameOptions ==
    {NullValue, Arr(<<>>), Arr(<<sRun>>), Arr(<<sJump>>), Arr(<<sRun, sJump>>),
     Arr(<<sRUN>>),
     Arr(<<sJump, sRun>>), Arr(<<sFly>>), Arr(<<sFly, sRun>>),
     Arr(<<sRun, sRun>>)}

InitFrames ==
    /\ GridIdle
    /\ CallIdle
    /\ LoadIdle
    /\ MotionIdle
    /\ ctxOk = TRUE
    /\ animationNames \in FrameNameOptions
    /\ numberOfFrames = 0
    /\ spriteDataRef \in {JsonObject(frames) : frames \in FrameManifests}
    /\ totalFrames = 0
    /\ spriteData = NullValue
    /\ spriteTexture = PlaceholderTexture
    /\ spriteObj = NullValue
    /\ pc = "idle"
    /\ pJsonGiven = NullValue
    /\ pJson = NullValue
    /\ pTexture = PlaceholderTexture
    /\ pError = "none"

\* parseFrames() on the current spriteDataRef and animationNames
ParseFramesCall ==
    /\ fCalled = "none"
    /\ fCalled' = "parseFrames"
    /\ fResult' = parseFrames(spriteDataRef, animationNames)
    /\ UNCHANGED fArg
    /\ UNCHANGED gridVars
    /\ UNCHANGED hookVars
    /\ UNCHANGED loadVars
    /\ UNCHANGED motionVars

NextFrames == ParseFramesCall

SpecFrames == InitFrames /\ [][NextFrames]_vars

(***************************************************************************)
(* SpecScale: one application of calculateScaleRatio (lines 427-465) to a  *)
(* bounded array of frames, of zero area included.                         *)
(***************************************************************************)
\* <<w, h>> of the frames
FrameSizes == (0..MaxSide) \X {1, 2}

ScaleInputs ==
    {Arr([k \in 1..Len(sizes) |-> ManifestFrame(k, sizes[k][1], sizes[k][2])]) :
        sizes \in SeqsUpTo(FrameSizes, MaxFrames)}

InitScale ==
    /\ GridIdle
    /\ LoadIdle
    /\ MotionIdle
    /\ ctxOk = TRUE
    /\ animationNames = NullValue
    /\ numberOfFrames = 0
    /\ HookIdle
    /\ fCalled = "none"
    /\ fArg \in ScaleInputs
    /\ fResult = NullValue

\* calculateScaleRatio(frames)
CalculateScaleRatioCall ==
    /\ fCalled = "none"
    /\ fCalled' = "calculateScaleRatio"
    /\ fResult' = calculateScaleRatio(fArg)
    /\ UNCHANGED fArg
    /\ UNCHANGED gridVars
    /\ UNCHANGED hookVars
    /\ UNCHANGED loadVars
    /\ UNCHANGED motionVars

NextScale == CalculateScaleRatioCall

SpecScale == InitScale /\ [][NextScale]_vars

(***************************************************************************)
(* SpecLoad: the hook mounted (lines 75-91 and 467-484): renders with      *)
(* changing arguments, the layout effects, the loads they and the returned *)
(* loadJsonAndTexture start, and the completion of the loads in any order. *)
(* A URL is a string; "null" stands for null and undefined.                *)
(***************************************************************************)
\* a URL that is neither null, undefined nor the empty string
Truthy(url) == url # "null" /\ url # ""

\* a ?? b
Coalesce(a, b) == IF a = "null" THEN b ELSE a

\* the image textureLoader.load decodes from a URL
ImageAt(url) ==
    IF url = "a" THEN Image(2, 2, {<<0, 0, 1, 1>>})
    ELSE Image(2, 1, {<<0, 0, 1, 0>>})

\* the texture a load of url resolves with
LoadedTexture(url) == Texture(<<url>>, ImageAt(url))

\* the object response.json() yields for a manifest URL: "j" is an array
\* manifest of two frames, any other URL an object without frames
JsonAt(url) ==
    IF url = "j"
    THEN JsonObject(ArrayManifest(<<<<sRun1, 0, 2, 1>>, <<sJump1, 2, 1, 1>>>>))
    ELSE JsonObject(Undefined)

\* loadStandaloneSprite(textureUrl) (lines 389-407) in a render whose input
\* is inp: the error it throws, or the URL it loads
loadStandaloneSprite(textureUrl, inp) ==
    IF ~Truthy(textureUrl) /\ ~Truthy(inp)
    THEN [error |-> "Either textureUrl or input must be provided",
          start |-> FALSE, texture |-> "null", json |-> "null"]
    ELSE LET validUrl == Coalesce(textureUrl, inp)
         IN IF ~Truthy(validUrl)
            THEN [error |-> "A valid texture URL must be provided",
                  start |-> FALSE, texture |-> "null", json |-> "null"]
            ELSE [error |-> "none", start |-> TRUE,
                  texture |-> validUrl, json |-> "null"]

\* loadJsonAndTexture(textureUrl, jsonUrl) (lines 381-387) in a render whose
\* input is inp
loadJsonAndTexture(textureUrl, manifestUrl, inp) ==
    IF Truthy(manifestUrl) /\ Truthy(textureUrl)
    THEN [error |-> "none", start |-> TRUE,
          texture |-> textureUrl, json |-> manifestUrl]
    ELSE loadStandaloneSprite(textureUrl, inp)

\* the layout effect of lines 467-480 for the arguments json = j and
\* input = i; loadStandaloneSpriteRef.current is the loadStandaloneSprite of
\* the first render, whose input was first
LoadEffect(j, i, first) ==
    IF Truthy(j) /\ Truthy(i)
    THEN [error |-> "none", start |-> TRUE, texture |-> i, json |-> j]
    ELSE IF Truthy(i)
    THEN loadStandaloneSprite("null", first)
    ELSE [error |-> "none", start |-> FALSE, texture |-> "null", json |-> "null"]

\* a loader that cancels: starting a load drops the loads still outstanding
StartLoadCancelling(what, by, p) ==
    /\ thrown' = what.error
    /\ IF what.start
       THEN /\ loads' = <<[texture |-> what.texture,
                           json |-> what.json,
                           by |-> by,
                           props |-> p,
                           id |-> started + 1]>>
            /\ started' = started + 1
       ELSE UNCHANGED <<loads, started>>

\* the outcome `what` of a load call made by `by` ("effect" or "call") in a
\* render with the arguments p: the error goes to the caller, or the load
\* joins the outstanding ones, none of which is cancelled
StartLoad(what, by, p) ==
    /\ thrown' = what.error
    /\ IF what.start
       THEN /\ loads' = Append(loads, [texture |-> what.texture,
                                        json |-> what.json,
                                        by |-> by,
                                        props |-> p,
                                        id |-> started + 1])
            /\ started' = started + 1
       ELSE UNCHANGED <<loads, started>>

\* the arguments of a render: [input, json, names, frames]
RenderProps ==
    {[input |-> "a", json |-> "null", names |-> NullValue, frames |-> 2],
     [input |-> "b", json |-> "null", names |-> NullValue, frames |-> 2],
     [input |-> "b", json |-> "null", names |-> NullValue, frames |-> 0],
     [input |-> "a", json |-> "j", names |-> Arr(<<sRun>>), frames |-> 0],
     [input |-> "b", json |-> "j", names |-> NullValue, frames |-> 0],
     [input |-> "a", json |-> "m", names |-> NullValue, frames |-> 0],
     [input |-> "null", json |-> "null", names |-> NullValue, frames |-> 0]}

InitLoad ==
    /\ GridIdle
    /\ CallIdle
    /\ LoadIdle
    /\ MotionIdle
    /\ ctxOk \in BOOLEAN
    /\ animationNames = NullValue
    /\ numberOfFrames = 0
    /\ HookIdle

\* the first render and its layout effects: the refs of lines 118-134 take
\* the closures of this render, the effect of line 467 starts the load, the
\* effect of line 482 calls onLoad
Mount(p) ==
    /\ phase = "unmounted"
    /\ phase' = "mounted"
    /\ input' = p.input
    /\ jsonUrl' = p.json
    /\ curNames' = p.names
    /\ curFrames' = p.frames
    /\ firstInput' = p.input
    /\ animationNames' = p.names
    /\ numberOfFrames' = p.frames
    /\ StartLoad(LoadEffect(p.json, p.input, p.input), "effect", p)
    /\ onLoadCount' = onLoadCount + 1
    /\ onLoadArgs' = [texture |-> spriteTexture, data |-> spriteData]
    /\ UNCHANGED <<called, rejected, done, published>>
    /\ UNCHANGED <<spriteDataRef, totalFrames, spriteData, spriteTexture,
                   spriteObj, pc, pJsonGiven, pJson, pTexture, pError>>
    /\ UNCHANGED gridVars
    /\ UNCHANGED callVars
    /\ UNCHANGED motionVars

\* a later render with other arguments; the effect of line 467 runs again
\* when input or json differ from those of the render before
Render(p) ==
    /\ phase = "mounted"
    /\ pc = "idle"
    /\ started < MaxLoads
    /\ p # [input |-> input, json |-> jsonUrl, names |-> curNames,
            frames |-> curFrames]
    /\ input' = p.input
    /\ jsonUrl' = p.json
    /\ curNames' = p.names
    /\ curFrames' = p.frames
    /\ IF p.input # input \/ p.json # jsonUrl
       THEN \E what \in {LoadEffect(p.json, p.input, firstInput)} :
               /\ StartLoad(what, "effect", p)
               /\ phase' = IF what.error # "none" THEN "crashed" ELSE phase
       ELSE UNCHANGED <<loads, started, thrown, phase>>
    /\ UNCHANGED <<firstInput, called, rejected, done, onLoadCount, onLoadArgs,
                   published>>
    /\ UNCHANGED hookVars
    /\ UNCHANGED gridVars
    /\ UNCHANGED callVars
    /\ UNCHANGED motionVars

\* the component calls the loadJsonAndTexture the current render returned
CallLoadJsonAndTexture(textureUrl, manifestUrl) ==
    /\ phase = "mounted"
    /\ pc = "idle"
    /\ started < MaxLoads
    /\ \E what \in {loadJsonAndTexture(textureUrl, manifestUrl, input)} :
          /\ StartLoad(what, "call",
                       [input |-> input, json |-> jsonUrl, names |-> curNames,
                        frames |-> curFrames])
          /\ called' = [textureUrl |-> textureUrl, jsonUrl |-> manifestUrl,
                        input |-> input, outcome |-> what]
    /\ UNCHANGED <<phase, input, jsonUrl, curNames, curFrames, firstInput,
                   rejected, done, onLoadCount, onLoadArgs, published>>
    /\ UNCHANGED hookVars
    /\ UNCHANGED gridVars
    /\ UNCHANGED callVars
    /\ UNCHANGED motionVars

\* the sequence s without its i-th element
RemoveAt(s, i) == [k \in 1..(Len(s) - 1) |-> IF k < i THEN s[k] ELSE s[k + 1]]

\* the i-th outstanding load completes: the callback of lines 403-405 or
\* 419-421 calls parseSpriteRef.current, the parseSpriteData of the first
\* render; the state updates of a parse that publishes are committed
\* together, and the effect of line 482 then calls onLoad, the texture of
\* every load being a new object
LoadDone(i) ==
    /\ phase = "mounted"
    /\ i <= Len(loads)
    /\ LET texture == LoadedTexture(loads[i].texture)
       IN IF loads[i].json # "null"
          THEN ParseSpriteDataJson(JsonAt(loads[i].json), texture)
          ELSE IF numberOfFrames # 0
               THEN ParseSpriteDataImage(texture)
               ELSE ParseSpriteDataNoFrames(texture)
    /\ loads' = RemoveAt(loads, i)
    /\ done' = loads[i]
    /\ rejected' = IF pError' # "none" THEN pError' ELSE rejected
    /\ IF pError' = "none" /\ pc' = "idle"
       THEN /\ published' = published + 1
            /\ onLoadCount' = onLoadCount + 1
            /\ onLoadArgs' = [texture |-> spriteTexture', data |-> spriteData']
       ELSE UNCHANGED <<published, onLoadCount, onLoadArgs>>
    /\ UNCHANGED <<phase, input, jsonUrl, curNames, curFrames, firstInput,
                   started, called, thrown>>
    /\ UNCHANGED motionVars

\* the arguments the component gives loadJsonAndTexture
CallUrls == {"null", "", "a"} \X {"null", "j"}

NextLoad ==
    \/ \E p \in RenderProps : Mount(p)
    \/ \E p \in RenderProps : Render(p)
    \/ \E u \in CallUrls : CallLoadJsonAndTexture(u[1], u[2])
    \/ \E i \in 1..MaxLoads : LoadDone(i)

SpecLoad == InitLoad /\ [][NextLoad]_vars

(***************************************************************************)
(* SpecMotion: MotionPathControls (MotionPathControls.tsx).  The component *)
(* is mounted with its arguments, update(t) stores an external progress    *)
(* and every frame runs the callback of lines 214-264.  Numbers are signed *)
(* fractions <<n, d>> with d > 0.                                          *)
(***************************************************************************)
MaxTicks == 4          \* number of frames run

Abs(n) == IF n < 0 THEN -n ELSE n

\* the signed fraction n/d in lowest terms, d > 0
Rat(n, d) == LET g == GCD(Abs(n), d) IN <<n \div g, d \div g>>

RatAdd(a, b) == Rat(a[1] * b[2] + b[1] * a[2], a[2] * b[2])
RatMul(a, b) == Rat(a[1] * b[1], a[2] * b[2])
RatLe(a, b) == a[1] * b[2] <= b[1] * a[2]
Zero == Rat(0, 1)
One == Rat(1, 1)

\* Ease.Linear.None (lines 31-33) and Ease.Quart.In (lines 81-83)
EaseNames == {"Linear.None", "Quart.In"}

ApplyEase(name, t) ==
    IF name = "Linear.None" THEN t
    ELSE RatMul(RatMul(t, t), RatMul(t, t))

\* the number q as the value of a ref that may also hold undefined
NumberValue(q) == [kind |-> "number", value |-> q]

\* a ?? b for a number or undefined a
NullishOr(a, b) == IF a = Undefined THEN b ELSE a.value

\* the truthiness of a number or undefined: undefined and 0 are falsy
TruthyNumber(a) == a # Undefined /\ a.value # Zero

\* easing.damp(currentT, 'current', 1, duration, delta, undefined, expo)
\* (line 226) moves current toward the target 1 and never past it: current
\* stays, goes halfway or arrives
DampOutcomes(current) ==
    IF RatLe(One, current) THEN {One}
    ELSE {current, RatMul(RatAdd(current, One), Rat(1, 2)), One}

\* the progress values update(t) is given and the speeds of the component
ProgressValues == {Rat(0, 1), Rat(1, 2), Rat(1, 1), Rat(3, 2), Rat(-1, 2), Rat(-2, 1)}
SpeedValues == {Rat(1, 4), Rat(1, 2), Rat(-1, 4)}

InitMotion ==
    /\ GridIdle
    /\ CallIdle
    /\ LoadIdle
    /\ ctxOk = TRUE
    /\ animationNames = NullValue
    /\ numberOfFrames = 0
    /\ HookIdle
    /\ autoStart \in BOOLEAN
    /\ loop \in BOOLEAN
    /\ easeFunction \in EaseNames \cup {"none"}
    /\ animationSpeed \in SpeedValues
    /\ offsetRef = Undefined
    /\ index = Zero
    /\ currentT = Zero
    /\ reached = FALSE
    /\ ticks = 0

\* update(t), lines 198-200
Update(t) ==
    /\ offsetRef' = NumberValue(t)
    /\ UNCHANGED <<autoStart, loop, easeFunction, animationSpeed, index,
                   currentT, reached, ticks>>
    /\ UNCHANGED <<gridVars, hookVars, callVars, loadVars>>

\* lines 217-228: currentT and index before the test of line 230, as
\* <<currentT, index>>
Progress(t) ==
    IF easeFunction # "none"
    THEN <<ApplyEase(easeFunction, NullishOr(offsetRef, index)),
           IF TruthyNumber(offsetRef)
           THEN offsetRef.value
           ELSE RatAdd(index, animationSpeed)>>
    ELSE <<t, t>>

\* a frame callback without the test of line 230
NoWrap(p) == p

\* lines 230-237
Wrap(p) ==
    IF RatLe(One, p[2])
    THEN (IF loop THEN <<Zero, Zero>> ELSE <<One, p[2]>>)
    ELSE p

\* the frame callback, lines 214-240
UseFrame ==
    /\ ticks < MaxTicks
    /\ ticks' = ticks + 1
    /\ IF autoStart
       THEN \E t \in DampOutcomes(currentT) :
               \E p \in {Progress(t)} :
                  /\ reached' = RatLe(One, p[2])
                  /\ currentT' = Wrap(p)[1]
                  /\ index' = Wrap(p)[2]
       ELSE /\ currentT' = Zero
            /\ reached' = FALSE
            /\ UNCHANGED index
    /\ UNCHANGED <<autoStart, loop, easeFunction, animationSpeed, offsetRef>>
    /\ UNCHANGED <<gridVars, hookVars, callVars, loadVars>>

NextMotion ==
    \/ \E t \in ProgressValues : Update(t)
    \/ UseFrame

SpecMotion == InitMotion /\ [][NextMotion]_vars

(***************************************************************************)
(* Claims about grid inference.                                            *)
(***************************************************************************)
GridReturnedForImage == gpc = "returned" /\ HasImage(gTexture)

\* the outcome getRowsAndColumns has as one step is the outcome of its steps
GridStepsAgree ==
    gpc \in {"outer", "inner", "returned", "raised"} =>
        LET got == getRowsAndColumns(gTexture, gTotalFrames, ctxOk)
        IN CASE gpc = "returned" ->
                    got.status = "returned" /\ got.result = gResult
             [] gpc = "raised" ->
                    got.status = "raised" /\ got.error = gError
             [] OTHER -> (got.status = "loops") <=> ~IsFinite(rows)

SampledPixels(result, r, c) ==
    LET x0 == ToLong(Mul(Num(c), result.frameWidth))
        y0 == ToLong(Mul(Num(r), result.frameHeight))
    IN (x0..(x0 + ToLong(result.frameWidth) - 1))
           \X (y0..(y0 + ToLong(result.frameHeight) - 1))

\* C2: the emptyFrames returned for an image hold exactly the grid cells
\* (row, col) that are padding (row * columns + col >= frameCount) or whose
\* sampled pixels all have alpha 0, each once; 512 x 256 with 7 frames and
\* no transparent cell gives exactly the cell (1, 3).
C2_EmptyCellsExact ==
    GridReturnedForImage =>
        LET nr == gResult.rows[1]
            nc == gResult.columns[1]
            expected ==
                {cell \in [row : 0..(nr - 1), col : 0..(nc - 1)] :
                    \/ cell.row * nc + cell.col >= gTotalFrames
                    \/ \A p \in SampledPixels(gResult, cell.row, cell.col) :
                          Alpha(gTexture.image, p[1], p[2]) = 0}
            es == gResult.emptyFrames
        IN /\ {es[i] : i \in 1..Len(es)} = expected
           /\ Cardinality(expected) = Len(es)
           /\ (gTexture.image = SheetImage /\ gTotalFrames = 7) =>
                  es = <<[row |-> 1, col |-> 3]>>

C2_Witness ==
    /\ GridReturnedForImage
    /\ gTexture.image = SheetImage
    /\ gTotalFrames = 7
    /\ gResult.emptyFrames = <<[row |-> 1, col |-> 3]>>

\* a returned grid with a cell in range that is empty because it is
\* transparent, next to a cell that is not
C2_WitnessTransparent ==
    /\ GridReturnedForImage
    /\ gTotalFrames = 2
    /\ gResult.columns = Num(2)
    /\ gResult.emptyFrames = <<[row |-> 0, col |-> 1]>>

\* C3: grid inference is a bounded single pass: once the grid size is
\* computed, columns and rows are finite positive integers and the pass is
\* at one of the rows 0..rows, so that it ends after rows * columns cells.
C3_GridBoundedPass ==
    gpc \in {"outer", "inner"} =>
        /\ IsFinite(cols) /\ cols[1] >= 1
        /\ IsFinite(rows) /\ rows[1] >= 1
        /\ row <= rows[1]

(***************************************************************************)
(* Claims about parseSpriteData without a manifest.                        *)
(***************************************************************************)
\* parseSpriteData has been called
ParseCalled == pTexture # PlaceholderTexture

\* the last call had no manifest and the hook has a frame count
ImageOnlyCall == ParseCalled /\ pJson = NullValue /\ numberOfFrames # 0

\* C4: after an image-only parse (no manifest, a frame count) of a texture
\* without an image, the call has completed without raising and has
\* published an empty frame sequence built from the all-zero grid.
C4_NoImageParseCompletes ==
    (ImageOnlyCall /\ ~HasImage(pTexture)) =>
        /\ pError = "none"
        /\ pc = "idle"
        /\ spriteObj # NullValue
        /\ spriteObj.spriteTexture = WithColorSpace(pTexture)
        /\ spriteObj.spriteData.frames = Arr(<<>>)
        /\ spriteObj.spriteData.meta.rows = Num(0)
        /\ spriteObj.spriteData.meta.columns = Num(0)

\* an image-only parse has returned and published
ImageOnlyPublished == ImageOnlyCall /\ pc = "idle" /\ pError = "none"

\* C5: after an image-only parse that published, the frames are those of
\* the grid cells not in emptyFrames, one each, in row-major order; the
\* frame of cell (row, col) is {x: col * frameWidth, y: row * frameHeight,
\* w: frameWidth, h: frameHeight} with sourceSize {w: frameWidth,
\* h: frameHeight}; their number is rows * columns - |emptyFrames|.
C5_FramesOfNonEmptyCells ==
    ImageOnlyPublished =>
        LET grid == getRowsAndColumns(pTexture, numberOfFrames, ctxOk).result
            nr == grid.rows[1]
            nc == grid.columns[1]
            es == grid.emptyFrames
            kept == [row : 0..(nr - 1), col : 0..(nc - 1)]
                        \ {es[i] : i \in 1..Len(es)}
            Before(a, b) == a.row < b.row \/ (a.row = b.row /\ a.col < b.col)
            Rank(cell) == Cardinality({k \in kept : Before(k, cell)}) + 1
            fs == spriteData.frames.items
        IN /\ spriteObj.spriteData = spriteData
           /\ spriteObj.spriteTexture = WithColorSpace(pTexture)
           /\ IsArray(spriteData.frames)
           /\ Len(fs) = nr * nc - Len(es)
           /\ Len(fs) = Cardinality(kept)
           /\ \A cell \in kept :
                 /\ fs[Rank(cell)].frame =
                        Rect(Mul(Num(cell.col), grid.frameWidth),
                             Mul(Num(cell.row), grid.frameHeight),
                             grid.frameWidth, grid.frameHeight)
                 /\ fs[Rank(cell)].sourceSize =
                        Size(grid.frameWidth, grid.frameHeight)

\* a 3 x 2 image parsed as 3 frames: a 2 x 2 grid of 1.5 x 1 cells of which
\* (0, 1) and (1, 0) are transparent and (1, 1) is padding
C5_Witness ==
    /\ ImageOnlyPublished
    /\ pTexture.image = Image(3, 2, {<<0, 0, 0, 0>>})
    /\ numberOfFrames = 3
    /\ Len(spriteData.frames.items) = 1
    /\ spriteData.frames.items[1].frame.w = Frac(3, 2)

\* a 2 x 2 image parsed as 4 frames whose only frame is that of the last
\* cell, the three cells before it being transparent
C5_WitnessSkip ==
    /\ ImageOnlyPublished
    /\ pTexture.image = Image(2, 2, {<<1, 1, 1, 1>>})
    /\ numberOfFrames = 4
    /\ Len(spriteData.frames.items) = 1
    /\ spriteData.frames.items[1].frame.x = Num(1)
    /\ spriteData.frames.items[1].frame.y = Num(1)

(***************************************************************************)
(* Claims about parseFrames with animation names.                          *)
(***************************************************************************)
\* the same letter, whatever its case
SameLetter(a, b) ==
    \/ a = b
    \/ \E j \in 1..Len(UpperCase) : {a, b} = {UpperCase[j], LowerCase[j]}

\* name occurs in id when the case of letters is ignored
OccursIgnoringCase(id, name) ==
    \E k \in 0..(Len(id) - Len(name)) :
        \A j \in 1..Len(name) : SameLetter(id[k + j], name[j])

\* the number of frames of a manifest, and its k-th frame
ManifestLen(frames) ==
    IF IsArray(frames) THEN Len(frames.items) ELSE Len(frames.entries)

ManifestRecord(frames, k) ==
    IF IsArray(frames) THEN frames.items[k] ELSE frames.entries[k].value

\* the k-th frame of a manifest has a key or filename that contains name
Matches(frames, k, name) ==
    IF IsArray(frames)
    THEN /\ "filename" \in DOMAIN frames.items[k]
         /\ OccursIgnoringCase(frames.items[k].filename, name)
    ELSE OccursIgnoringCase(frames.entries[k].key, name)

\* the x of the rectangles of the frames of the bucket of name
BucketXs(sprites, name) ==
    LET e == CHOOSE e \in {sprites.entries[i] : i \in 1..Len(sprites.entries)} :
                 e.key = name
    IN [i \in 1..Len(e.value.items) |-> e.value.items[i].frame.x]

\* C6: parseFrames on an array or hash manifest under a non-empty list of
\* names returns, for each name, one bucket that holds exactly the frames
\* whose filename or key contains the name as a case-insensitive substring,
\* in manifest order (so a frame matching several names is in each bucket);
\* run_1, running_2, jump_1 under [run, jump] give run = [run_1, running_2]
\* and jump = [jump_1].
C6_BucketsHoldMatches ==
    (/\ fCalled = "parseFrames"
     /\ animationNames # NullValue
     /\ animationNames.items # <<>>) =>
        LET frames == spriteDataRef.frames
            names == animationNames.items
        IN /\ fResult.kind = "object"
           /\ \A n \in 1..Len(names) :
                 LET hits == {k \in 1..ManifestLen(frames) :
                                 Matches(frames, k, names[n])}
                     Rank(k) == Cardinality({j \in hits : j < k}) + 1
                     buckets == {i \in 1..Len(fResult.entries) :
                                    fResult.entries[i].key = names[n]}
                 IN /\ Cardinality(buckets) = 1
                    /\ \A i \in buckets :
                          LET bucket == fResult.entries[i].value.items
                          IN /\ Len(bucket) = Cardinality(hits)
                             /\ \A k \in hits :
                                   /\ bucket[Rank(k)].frame =
                                          ManifestRecord(frames, k).frame
                                   /\ bucket[Rank(k)].sourceSize =
                                          ManifestRecord(frames, k).sourceSize
           /\ (/\ frames \in {ArrayManifest(WalkFrames), HashManifest(WalkFrames)}
               /\ names = <<sRun, sJump>>) =>
                  /\ BucketXs(fResult, sRun) = <<Num(0), Num(4)>>
                  /\ BucketXs(fResult, sJump) = <<Num(8)>>

\* the documentation's example, grouped
C6_Witness ==
    /\ fCalled = "parseFrames"
    /\ spriteDataRef.frames = HashManifest(WalkFrames)
    /\ animationNames = Arr(<<sRun, sJump>>)
    /\ BucketXs(fResult, sRun) = <<Num(0), Num(4)>>
    /\ BucketXs(fResult, sJump) = <<Num(8)>>

\* a frame written Run_3 in the bucket of run, and a frame in two buckets
C6_WitnessCase ==
    /\ fCalled = "parseFrames"
    /\ spriteDataRef.frames = ArrayManifest(NamedAt(<<sJump1, sRun3Upper, sRunJump>>))
    /\ animationNames = Arr(<<sJump, sRun>>)
    /\ BucketXs(fResult, sRun) = <<Num(2), Num(3)>>
    /\ BucketXs(fResult, sJump) = <<Num(1), Num(3)>>

\* a parse with a manifest, under a non-empty list of names one of which
\* matched a frame
NamedParse ==
    /\ ParseCalled
    /\ pJson # NullValue
    /\ animationNames # NullValue
    /\ animationNames.items # <<>>
    /\ pJson.frames.kind = "object"
    /\ \E i \in 1..Len(pJson.frames.entries) :
          pJson.frames.entries[i].value.items # <<>>

\* C7: a parse of a manifest and a texture under a list of names completes
\* without raising whichever names match, and publishes a result in which
\* every name has its bucket, empty when the name matched no frame.
C7_UnmatchedNamesPublish ==
    NamedParse =>
        /\ pError = "none"
        /\ spriteObj # NullValue
        /\ spriteObj.spriteData = pJson
        /\ spriteObj.spriteTexture = WithColorSpace(pTexture)
        /\ \A n \in 1..Len(animationNames.items) :
              \E i \in 1..Len(spriteData.frames.entries) :
                  spriteData.frames.entries[i].key = animationNames.items[n]

\* parseFrames applied without names, or with an empty list of names
UnnamedParseFrames ==
    /\ fCalled = "parseFrames"
    /\ (animationNames = NullValue \/ animationNames.items = <<>>)

\* the result is the array of the frames of the manifest in their order
FlatResult ==
    LET frames == spriteDataRef.frames
    IN /\ IsArray(fResult)
       /\ Len(fResult.items) = ManifestLen(frames)
       /\ \A k \in 1..ManifestLen(frames) :
             /\ fResult.items[k].frame = ManifestRecord(frames, k).frame
             /\ fResult.items[k].sourceSize = ManifestRecord(frames, k).sourceSize

\* C8: without animation names (null) or with an empty list of them,
\* parseFrames on an array or hash manifest groups nothing and returns one
\* sequence holding every frame of the manifest, in manifest order, as many
\* as the manifest has.
C8_NoNamesFlatten == UnnamedParseFrames => FlatResult

\* what holds of C8: the names absent (null), the result is the flat sequence
C8_AbsentNamesFlatten ==
    (fCalled = "parseFrames" /\ animationNames = NullValue) => FlatResult

(***************************************************************************)
(* Claims about calculateScaleRatio.                                       *)
(***************************************************************************)
\* the area of a frame whose sides are integers
IntArea(f) == f.frame.w[1] * f.frame.h[1]

\* the greatest of the areas of a non-empty sequence of frames
MaxArea(fs) ==
    CHOOSE a \in {IntArea(fs[i]) : i \in 1..Len(fs)} :
        \A i \in 1..Len(fs) : IntArea(fs[i]) <= a

\* the scaleRatio r of a frame is sqrt(n / d), for d > 0
IsSqrtOf(r, n, d) == r.sqrtOf[1] * d = n * r.sqrtOf[2] /\ r.sqrtOf[2] # 0

\* 0 < r <= 1 for the square root r
InUnitInterval(r) == 0 < r.sqrtOf[1] /\ r.sqrtOf[1] <= r.sqrtOf[2]

\* the frames of fs, each with a scaleRatio in (0, 1] that is
\* sqrt(area / maxArea), one of them with scaleRatio 1
Normalized(fs, out) ==
    /\ Len(out) = Len(fs)
    /\ \A i \in 1..Len(fs) :
          /\ out[i].frame = fs[i].frame
          /\ out[i].sourceSize = fs[i].sourceSize
          /\ InUnitInterval(out[i].scaleRatio)
          /\ IntArea(fs[i]) = MaxArea(fs) => out[i].scaleRatio = MathSqrt(Num(1))
          /\ IntArea(fs[i]) # MaxArea(fs) =>
                 IsSqrtOf(out[i].scaleRatio, IntArea(fs[i]), MaxArea(fs))
    /\ fs # <<>> => \E i \in 1..Len(fs) : out[i].scaleRatio = MathSqrt(Num(1))
    /\ Len(fs) = 1 => out[1].scaleRatio = MathSqrt(Num(1))

\* C9 as stated: calculateScaleRatio on any sequence of frames returns the
\* frames with 0 < scaleRatio <= 1, scaleRatio 1 for a frame of the greatest
\* area and sqrt(area / maxArea) for the others; an empty sequence gives an
\* empty one and a single frame gets 1.
C9_ScaleRatiosInUnitInterval ==
    fCalled = "calculateScaleRatio" =>
        /\ IsArray(fResult)
        /\ Normalized(fArg.items, fResult.items)

\* C9 for frames of positive width and height: calculateScaleRatio returns
\* the frames with 0 < scaleRatio <= 1, scaleRatio 1 for a frame of the
\* greatest area and sqrt(area / maxArea) for the others; an empty sequence
\* gives an empty one and a single frame gets 1, whatever its area.
C9_ScaleRatiosOfPositiveAreas ==
    fCalled = "calculateScaleRatio" =>
        /\ IsArray(fResult)
        /\ Len(fResult.items) = Len(fArg.items)
        /\ Len(fArg.items) = 1 => fResult.items[1].scaleRatio = MathSqrt(Num(1))
        /\ (\A i \in 1..Len(fArg.items) : IntArea(fArg.items[i]) > 0) =>
               Normalized(fArg.items, fResult.items)

\* three frames of positive areas 2, 6 and 3 normalized to sqrt(1/3), 1
\* and sqrt(1/2)
C9_Witness ==
    /\ fCalled = "calculateScaleRatio"
    /\ Len(fArg.items) = 3
    /\ fArg.items[1].frame.w = Num(1) /\ fArg.items[1].frame.h = Num(2)
    /\ fArg.items[2].frame.w = Num(3) /\ fArg.items[2].frame.h = Num(2)
    /\ fArg.items[3].frame.w = Num(3) /\ fArg.items[3].frame.h = Num(1)
    /\ fResult.items[1].scaleRatio = MathSqrt(Frac(1, 3))
    /\ fResult.items[2].scaleRatio = MathSqrt(Num(1))
    /\ fResult.items[3].scaleRatio = MathSqrt(Frac(1, 2))

\* the scaleRatio of a frame of a bucket, against the frames of the bucket
BucketNormalized(bucket) ==
    \A i \in 1..Len(bucket) :
        /\ "scaleRatio" \in DOMAIN bucket[i]
        /\ IF IntArea(bucket[i]) = MaxArea(bucket)
           THEN bucket[i].scaleRatio = MathSqrt(Num(1))
           ELSE IsSqrtOf(bucket[i].scaleRatio, IntArea(bucket[i]), MaxArea(bucket))

\* C10: in the published result every frame carries a scaleRatio: the
\* frames of a flat sequence, and, when there are buckets, the elements of
\* each bucket, normalized against the largest frame of their own bucket
\* (area 2500 gives 0.5 under a maximum of 10000 and 0.25 under 40000).
C10_PublishedFramesCarryScaleRatio ==
    (ParseCalled /\ pError = "none" /\ pc = "idle" /\ spriteData # NullValue) =>
        IF IsArray(spriteData.frames)
        THEN \A i \in 1..Len(spriteData.frames.items) :
                 "scaleRatio" \in DOMAIN spriteData.frames.items[i]
        ELSE \A i \in 1..Len(spriteData.frames.entries) :
                 BucketNormalized(spriteData.frames.entries[i].value.items)

(***************************************************************************)
(* Claims about the mounted hook: loads, publication and onLoad.           *)
(***************************************************************************)
\* the texture and data the hook holds before any parse has published
PlaceholderArgs == [texture |-> PlaceholderTexture, data |-> NullValue]

\* C11: onLoad is called once per successful parse and never otherwise: the
\* calls made so far are as many as the parses that published, and the
\* arguments of a call are never the placeholder texture and the null data
\* the hook holds before any parse
C11_OnLoadOncePerParse ==
    phase # "unmounted" =>
        /\ onLoadCount = published
        /\ onLoadCount > 0 => onLoadArgs # PlaceholderArgs

\* the error getRowsAndColumns raises without a 2D context (line 152)
ContextUnavailable == "Failed to get 2d context"

\* C12: when grid inference fails because no 2D context is available, the
\* error reaches the caller of the load: the load call whose texture was
\* parsed has thrown it
C12_ContextErrorReachesCaller ==
    (done # NullValue /\ pError = ContextUnavailable) =>
        thrown = ContextUnavailable

\* the part of C12 that holds: the step in which the parse raises the error
\* leaves spriteData, spriteTexture and spriteObj as they were and starts no
\* load again
C12_NothingPublished ==
    [][pError' = ContextUnavailable /\ done' # done =>
          /\ UNCHANGED <<spriteData, spriteTexture, spriteObj, published>>
          /\ started' = started
          /\ Len(loads') = Len(loads) - 1
          /\ rejected' = ContextUnavailable]_vars

\* C13: a standalone load (loadJsonAndTexture without both URLs) raises
\* exactly when neither the explicit URL nor the input of the render is
\* provided; with at least one of them provided, the empty string as the
\* explicit URL included, it raises nothing and starts loading a provided
\* source
C13_MissingSourceExactly ==
    (called # NullValue
     /\ ~(Truthy(called.jsonUrl) /\ Truthy(called.textureUrl))) =>
        LET missing == ~Truthy(called.textureUrl) /\ ~Truthy(called.input)
        IN /\ (called.outcome.error # "none") <=> missing
           /\ missing => ~called.outcome.start
           /\ ~missing =>
                 /\ called.outcome.start
                 /\ Truthy(called.outcome.texture)
                 /\ called.outcome.texture \in {called.textureUrl, called.input}

\* the part of C13 that holds: with neither source the call raises before
\* any load is started, and a call with an explicit non-empty URL loads it
C13_RaisesWithoutSource ==
    (called # NullValue
     /\ ~(Truthy(called.jsonUrl) /\ Truthy(called.textureUrl))) =>
        /\ (~Truthy(called.textureUrl) /\ ~Truthy(called.input)) =>
              (called.outcome.error # "none" /\ ~called.outcome.start)
        /\ Truthy(called.textureUrl) =>
              (called.outcome.start /\ called.outcome.texture = called.textureUrl)

\* the manifest a malformed response yields, and what it is once its frames
\* have been replaced by an empty sequence
MalformedManifest == JsonObject(Undefined)
CoercedManifest == [MalformedManifest EXCEPT !.frames = Arr(<<>>)]

\* C14: a manifest whose frames is neither a hash nor an array is never
\* coerced into an empty frame set: after the parse of one an error is
\* reported and the stored data is not the manifest with empty frames, and
\* no published result is ever that manifest with empty frames
C14_MalformedManifestNotCoerced ==
    /\ pJsonGiven = MalformedManifest =>
          (pError # "none" /\ spriteDataRef # CoercedManifest)
    /\ spriteData # CoercedManifest
    /\ spriteObj # NullValue => spriteObj.spriteData # CoercedManifest

\* the same without the stored data: no published result is ever the
\* malformed manifest with an empty frame sequence
C14_MalformedManifestNotPublished ==
    /\ spriteData # CoercedManifest
    /\ spriteObj # NullValue => spriteObj.spriteData # CoercedManifest

\* C15: parsing does not modify the manifest object it is given: once
\* parseSpriteData has run on a manifest, the object the loader supplied
\* still has the frames it was supplied with
C15_ManifestNotMutated ==
    (pJsonGiven # NullValue /\ pTexture # PlaceholderTexture) =>
        pJson.frames = pJsonGiven.frames

\* C17: a parse depends on nothing but its own texture and manifest: an
\* image-only parse without frame count that publishes gives no frame data
\* (there is no manifest and no grid to take frames from), whatever earlier
\* parses have run
C17_ImageOnlyParseStateless ==
    (done # NullValue /\ done.json = "null" /\ numberOfFrames = 0
     /\ pError = "none" /\ pc = "idle"
     /\ pTexture = LoadedTexture(done.texture)) =>
        /\ spriteObj.spriteTexture.url = <<done.texture>>
        /\ spriteObj.spriteData = NullValue

\* the load k of sequence s is still in sequence t
StillIn(s, k, t) == \E m \in 1..Len(t) : t[m] = s[k]

\* a step of a load completing with a parse that publishes
CompletesAndPublishes ==
    /\ Len(loads') < Len(loads)
    /\ pError' = "none"
    /\ pc' = "idle"

\* C16: no load is cancelled and the last completion wins: in every step
\* each outstanding load stays outstanding or is the one that completes, the
\* load that completes is parsed whether or not a later render has other
\* arguments, and when its parse publishes, spriteTexture and spriteObj hold
\* the texture of that load
C16_SupersededLoadsPublish ==
    [][/\ \A k \in 1..Len(loads) :
             \/ StillIn(loads, k, loads')
             \/ (done' = loads[k] /\ pTexture' = LoadedTexture(loads[k].texture))
       /\ CompletesAndPublishes =>
             /\ spriteTexture' = WithColorSpace(LoadedTexture(done'.texture))
             /\ spriteObj'.spriteTexture = spriteTexture'
             /\ published' = published + 1]_vars

\* a load started by an earlier render has completed after the load of the
\* current render and its texture is the one published
C16_Witness ==
    /\ phase = "mounted"
    /\ started = 2
    /\ loads = <<>>
    /\ done.id = 1
    /\ done.by = "effect"
    /\ done.props.input # input
    /\ published = 2
    /\ pError = "none"
    /\ spriteTexture = WithColorSpace(LoadedTexture(done.texture))
    /\ spriteObj.spriteTexture.url = <<done.props.input>>

\* C18: a load the effect starts for a change of input or json uses the
\* arguments of the render that started it: the texture it loads is the one
\* named by that render's input, the image-only load included, and the
\* parse of its result groups by that render's animationNames and takes that
\* render's numberOfFrames
C18_LoadsUseCurrentArguments ==
    /\ \A k \in 1..Len(loads) :
          loads[k].by = "effect" => loads[k].texture = loads[k].props.input
    /\ (done # NullValue /\ done.by = "effect") =>
          /\ done.texture = done.props.input
          /\ animationNames = done.props.names
          /\ numberOfFrames = done.props.frames

\* the part of C18 about the texture alone
C18_LoadsUseCurrentInput ==
    \A k \in 1..Len(loads) :
        loads[k].by = "effect" => loads[k].texture = loads[k].props.input

\* the part of C18 about the parse alone
C18_ParseUsesCurrentArguments ==
    (done # NullValue /\ done.by = "effect") =>
        /\ animationNames = done.props.names
        /\ numberOfFrames = done.props.frames

\* the part of C18 that holds: a load the effect starts for a manifest loads
\* the input and the json of the render that started it
C18_ManifestLoadsUseCurrentInput ==
    \A k \in 1..Len(loads) :
        (loads[k].by = "effect" /\ loads[k].json # "null") =>
            /\ loads[k].texture = loads[k].props.input
            /\ loads[k].json = loads[k].props.json

(***************************************************************************)
(* Claims about MotionPathControls.                                        *)
(***************************************************************************)
InUnit(q) == RatLe(Zero, q) /\ RatLe(q, One)

\* what the frame that found index.current >= 1.0 leaves
WrappedAtOne ==
    reached => IF loop THEN index = Zero /\ currentT = Zero
               ELSE currentT = One

\* C19: after every frame, with autoStart and an easeFunction that maps
\* [0,1) into [0,1], currentT lies in [0,1], and a frame in which index
\* reached 1 or more has set index and currentT to 0 when loop is set and
\* currentT to 1 when it is not; without autoStart currentT is 0 after every
\* frame
C19_CurrentTInUnitInterval ==
    ticks > 0 =>
        /\ (autoStart /\ easeFunction # "none") =>
              (InUnit(currentT) /\ WrappedAtOne)
        /\ ~autoStart => currentT = Zero

\* the part of C19 that holds for every speed and progress: the frame that
\* finds index at 1 or more wraps, and without autoStart currentT is 0
C19_WrapsAtOne ==
    ticks > 0 =>
        /\ autoStart => WrappedAtOne
        /\ ~autoStart => currentT = Zero

\* the speed is not negative and the progress update(t) gave last, if any,
\* is not negative
ForwardProgress ==
    /\ RatLe(Zero, animationSpeed)
    /\ RatLe(Zero, NullishOr(offsetRef, Zero))

\* C19 for forward progress: after every frame, with autoStart, an
\* easeFunction that maps [0,1) into [0,1], a speed that is not negative
\* and no negative progress given, currentT lies in [0,1]; for every speed
\* and progress a frame in which index reached 1 or more has set index and
\* currentT to 0 when loop is set and currentT to 1 when it is not, and
\* without autoStart currentT is 0 after every frame
C19_ForwardProgressInUnitInterval ==
    [][ticks' = ticks + 1 =>
          /\ (autoStart /\ easeFunction # "none" /\ ForwardProgress) =>
                InUnit(currentT')
          /\ (autoStart /\ easeFunction # "none") => WrappedAtOne'
          /\ ~autoStart => currentT' = Zero]_vars

\* a frame of a looping path found index at 1 after accumulating the speed
\* and wrapped to 0
C19_Witness ==
    /\ autoStart
    /\ loop
    /\ easeFunction = "Quart.In"
    /\ offsetRef = Undefined
    /\ animationSpeed = Rat(1, 4)
    /\ ticks = 4
    /\ reached
    /\ index = Zero
    /\ currentT = Zero

\* a frame of a path that does not loop was given the progress 3/2 and
\* stopped at 1
C19_WitnessStop ==
    /\ autoStart
    /\ ~loop
    /\ easeFunction = "Linear.None"
    /\ offsetRef = NumberValue(Rat(3, 2))
    /\ ticks > 0
    /\ reached
    /\ currentT = One

====
